---- MODULE Spec2Model ----
(***************************************************************************)
(* Reverse screening driver (reverse_screening.py): argument validation,   *)
(* query loading, model database scan, per-query parallel scoring through  *)
(* a worker pool, filtering / ranking and the result sink.                 *)
(*                                                                         *)
(* Scores are floats in the program; the model uses integers, which keep   *)
(* the order and the equalities the program relies on.  An optional value  *)
(* (argparse default None) is a sequence: <<>> for None, <<v>> for v.      *)
(***************************************************************************)
EXTENDS Integers, Sequences, FiniteSets, TLC

VARIABLES
    args,          \* parsed command line (argparse namespace)
    csv_rows,      \* rows of the batch query CSV on disk, as DictReader yields them
    db_exists,     \* whether args.model_database_dir exists
    db_files,      \* the .pm files below it, in rglob order
    pc,            \* position of main()
    exit_status,   \* <<>> while running, <<code>> once the process has exited
    queries,       \* list of query dicts
    model_list,    \* list(database_path.rglob("*.pm"))
    query_idx,     \* index of the query being processed (enumerate(queries, start=1))
    pool,          \* the worker pool's task table of the current pool.map call
    result,        \* the local variable result of the current query
    all_results,   \* accumulated (query_name, model_path, score) rows
    out_dir_made,  \* out_path.parent.mkdir happened
    out_file,      \* <<>> while no file was written, <<rows>> once written
    collected,     \* history: what pool.map returned for each processed query
    finished,      \* history: the order in which the tasks of the current pool completed
    failed,        \* history: the (query index, model index) pairs whose task raised
    summary        \* the "Score Statistics" block printed at the end, by label

\* typing.py: one PMNetAttr value taken through to_state and from_state
VARIABLES
    pmnet_attr,    \* the PMNetAttr value x
    attr_state,    \* the dict x.to_state() returned, <<>> before the call
    attr_restored, \* the outcome of PMNetAttr.from_state(state), <<>> before the call
    attr_pc        \* position of the round trip

\* batch_modeling.py: main(args)
VARIABLES
    bm_args,         \* parsed command line: continue_on_error, dry_run
    bm_csv,          \* the input CSV: whether it exists, is well-formed, and its rows
    entries,         \* parse_csv_input(input_csv)
    bm_pc,           \* position of main()
    entry_idx,       \* index of the entry being processed (enumerate(entries, 1))
    executed,        \* history: the entries whose command subprocess.run started
    success_count,   \* success_count
    failed_entries,  \* failed_entries
    bm_exit          \* <<>> while running, <<code>> once the process has exited

screenVars == <<args, csv_rows, db_exists, db_files, pc, exit_status, queries,
                model_list, query_idx, pool, result, all_results, out_dir_made,
                out_file, collected, finished, failed, summary>>

attrVars == <<pmnet_attr, attr_state, attr_restored, attr_pc>>

batchVars == <<bm_args, bm_csv, entries, bm_pc, entry_idx, executed, success_count,
               failed_entries, bm_exit>>

vars == <<screenVars, attrVars, batchVars>>

-----------------------------------------------------------------------------
(* Bounds of the model *)

MaxModels == 2
MaxRows == 2
MaxScore == 1
MaxHotspots == 1
MaxEntries == 3

(* Program constants *)

Sentinel == -1
DefaultMinScore == 0
DefaultCpus == 1
ExitFailure == 1
ExitUsage == 2
ExitSuccess == 0
NumScales == 5

-----------------------------------------------------------------------------
(* Values *)

None == <<>>
Some(v) == <<v>>
IsNone(o) == o = <<>>
Val(o) == o[1]

\* Python truthiness of an optional string argument: None and "" are falsy.
Truthy(o) == ~IsNone(o) /\ Val(o) # ""

\* The filesystem seen by Path(...).exists(): the paths that exist.
ExistingPaths == {"lig.sdf", "q.csv"}

PathExists(p) == p \in ExistingPaths

ModelFiles == <<"A.pm", "B.pm", "C.pm", "D.pm">>

Min(a, b) == IF a <= b THEN a ELSE b
Max(a, b) == IF a >= b THEN a ELSE b

SeqsUpTo(S, n) == UNION {[1..k -> S] : k \in 0..n}


-----------------------------------------------------------------------------
(* Pure functions of reverse_screening.py *)

\* faulty variant of is_smiles: the negation dropped
IsSmilesInverted(query_str) == PathExists(query_str)

\* is_smiles(query_str): not Path(query_str).exists()
is_smiles(query_str) == ~PathExists(query_str)

\* faulty variant of score_model: the except branch returns 0.0
ScoreModelZeroOnError(model_path, outcome) ==
    IF IsNone(outcome) THEN <<model_path, 0>> ELSE <<model_path, Val(outcome)>>

\* score_model: the outcome of PharmacophoreModel.load + scoring_smiles /
\* scoring_file is external: None when either raised, Some(score) otherwise.
\* The try/except turns a raise into the sentinel, paired with the model path.
score_model(model_path, outcome) ==
    IF IsNone(outcome) THEN <<model_path, Sentinel>> ELSE <<model_path, Val(outcome)>>

\* faulty variant of RowQueries: the File of a row is not checked for existence
RowQueriesNoFileCheck(row) ==
    IF row.name = "" THEN <<>>
    ELSE IF row.smiles # "" THEN
        <<[name |-> row.name, query |-> row.smiles, is_smiles |-> TRUE]>>
    ELSE IF row.file # "" THEN
        <<[name |-> row.name, query |-> row.file, is_smiles |-> FALSE]>>
    ELSE <<>>

\* One iteration of the loop of parse_query_csv: the queries a row contributes.
RowQueries(row) ==
    IF row.name = "" THEN <<>>
    ELSE IF row.smiles # "" THEN
        <<[name |-> row.name, query |-> row.smiles, is_smiles |-> TRUE]>>
    ELSE IF row.file # "" THEN
        IF ~PathExists(row.file) THEN <<>>
        ELSE <<[name |-> row.name, query |-> row.file, is_smiles |-> FALSE]>>
    ELSE <<>>

RECURSIVE parse_query_csv(_)
parse_query_csv(rows) ==
    IF rows = <<>> THEN <<>>
    ELSE RowQueries(Head(rows)) \o parse_query_csv(Tail(rows))

\* faulty variant of PassesMinScore: a strict comparison
PassesMinScoreStrict(score, min_score) == score > min_score

\* line 287: keep (path, score) when score >= args.min_score
PassesMinScore(score, min_score) == score >= min_score

RECURSIVE FilterMinScore(_, _)
FilterMinScore(res, min_score) ==
    IF res = <<>> THEN <<>>
    ELSE (IF PassesMinScore(Head(res)[2], min_score) THEN <<Head(res)>> ELSE <<>>)
         \o FilterMinScore(Tail(res), min_score)

\* faulty variant of StaysBefore: reverse=True forgotten, an ascending stable sort
StaysBeforeAscending(earlier, later) == earlier[2] <= later[2]

\* faulty variant of StaysBefore: a descending sort that is not stable
StaysBeforeStrict(earlier, later) == earlier[2] > later[2]

\* line 290: result.sort(key=lambda x: x[1], reverse=True).  list.sort is
\* stable, also with reverse=True: an element stays behind every earlier
\* element whose key is greater or equal.
StaysBefore(earlier, later) == earlier[2] >= later[2]

RECURSIVE InsertSorted(_, _)
InsertSorted(sorted, x) ==
    IF sorted = <<>> THEN <<x>>
    ELSE IF StaysBefore(Head(sorted), x)
         THEN <<Head(sorted)>> \o InsertSorted(Tail(sorted), x)
         ELSE <<x>> \o sorted

RECURSIVE SortByScoreReverse(_)
SortByScoreReverse(res) ==
    IF res = <<>> THEN <<>>
    ELSE InsertSorted(SortByScoreReverse(SubSeq(res, 1, Len(res) - 1)), res[Len(res)])

\* Python slice s[:k]: the first k elements, or all but the last -k when k < 0.
SliceTo(s, k) ==
    IF k >= 0 THEN SubSeq(s, 1, Min(k, Len(s)))
    ELSE SubSeq(s, 1, Max(Len(s) + k, 0))

\* lines 293-294
ApplyTopN(res, top_n) == IF IsNone(top_n) THEN res ELSE SliceTo(res, Val(top_n))

\* lines 286-294 on one query's result list
Rank(res, min_score, top_n) ==
    ApplyTopN(SortByScoreReverse(FilterMinScore(res, min_score)), top_n)

\* lines 297-298
Rows(query_name, res) == [i \in 1..Len(res) |-> <<query_name, res[i][1], res[i][2]>>]

-----------------------------------------------------------------------------
(* Inputs *)

QueryMoleculeArgs == {None, Some(""), Some("CCO")}
QueryCsvArgs == {None, Some(""), Some("q.csv"), Some("nofile.csv")}

CsvRow(n, s, f) == [name |-> n, smiles |-> s, file |-> f]

\* every row a DictReader can yield over these cell values
AllRows == {CsvRow(n, s, f) : n \in {"", "A"}, s \in {"", "CCO", "lig.sdf"},
                              f \in {"", "lig.sdf", "gone.sdf"}}

\* a well-formed batch of two queries, one of each kind
TwoQueryCsv == <<CsvRow("A", "CCO", ""), CsvRow("B", "", "lig.sdf")>>

RealScores == 0..MaxScore
Outcomes == {None} \cup {Some(s) : s \in RealScores}

\* the other two programs are not running
AttrIdle ==
    /\ pmnet_attr = <<>>
    /\ attr_state = <<>>
    /\ attr_restored = <<>>
    /\ attr_pc = "idle"

BatchIdle ==
    /\ bm_args = <<>>
    /\ bm_csv = <<>>
    /\ entries = <<>>
    /\ bm_pc = "idle"
    /\ entry_idx = 0
    /\ executed = <<>>
    /\ success_count = 0
    /\ failed_entries = <<>>
    /\ bm_exit = <<>>

InitOver(QMs, QCs, MinScores, TopNs, CpuSet, Csvs, ModelCounts) ==
    /\ args \in [query_molecule : QMs, query_csv : QCs, min_score : MinScores,
                 top_n : TopNs, cpus : CpuSet]
    /\ csv_rows \in (IF Truthy(args.query_csv) THEN Csvs ELSE {<<>>})
    /\ db_exists \in BOOLEAN
    /\ db_files \in {SubSeq(ModelFiles, 1, n) : n \in ModelCounts}
    /\ (~db_exists => db_files = <<>>)
    /\ pc = "validate"
    /\ exit_status = None
    /\ queries = <<>>
    /\ model_list = <<>>
    /\ query_idx = 0
    /\ pool = <<>>
    /\ result = <<>>
    /\ all_results = <<>>
    /\ out_dir_made = FALSE
    /\ out_file = None
    /\ collected = <<>>
    /\ finished = <<>>
    /\ failed = {}
    /\ summary = <<>>
    /\ AttrIdle
    /\ BatchIdle

\* every ranking parameter; pool sizes: invalid, sequential, one worker per model
Init ==
    InitOver(QueryMoleculeArgs, QueryCsvArgs,
             {Sentinel, DefaultMinScore, MaxScore},
             {None} \cup {Some(k) : k \in (0 - 1)..MaxModels},
             {0, DefaultCpus, MaxModels}, {TwoQueryCsv}, 0..MaxModels)

\* every batch file content, default ranking parameters
InitLoad ==
    InitOver({None, Some("CCO"), Some("lig.sdf")}, {None, Some("q.csv")},
             {DefaultMinScore}, {None}, {DefaultCpus},
             SeqsUpTo(AllRows, MaxRows), {0, 1})

-----------------------------------------------------------------------------
(* main() *)

\* sys.exit(code), parser.error (status 2) or an uncaught exception (status 1)
Exit(code) ==
    /\ pc' = "exited"
    /\ exit_status' = Some(code)

\* lines 205-209
ValidateArgs ==
    /\ pc = "validate"
    /\ IF ~Truthy(args.query_molecule) /\ ~Truthy(args.query_csv) THEN Exit(ExitUsage)
       ELSE IF Truthy(args.query_molecule) /\ Truthy(args.query_csv) THEN Exit(ExitUsage)
       ELSE pc' = "load" /\ UNCHANGED exit_status
    /\ UNCHANGED <<args, csv_rows, db_exists, db_files, queries, model_list, query_idx,
                   pool, result, all_results, out_dir_made, out_file, collected, finished, failed>>
    /\ UNCHANGED <<summary, attrVars, batchVars>>

\* lines 212-218; open() raises FileNotFoundError when the CSV does not exist
LoadQueriesCsv ==
    /\ pc = "load"
    /\ Truthy(args.query_csv)
    /\ IF ~PathExists(Val(args.query_csv))
       THEN Exit(ExitFailure) /\ UNCHANGED queries
       ELSE /\ queries' = parse_query_csv(csv_rows)
            /\ IF queries' = <<>> THEN Exit(ExitFailure)
               ELSE pc' = "scan" /\ UNCHANGED exit_status
    /\ UNCHANGED <<args, csv_rows, db_exists, db_files, model_list, query_idx,
                   pool, result, all_results, out_dir_made, out_file, collected, finished, failed>>
    /\ UNCHANGED <<summary, attrVars, batchVars>>

\* lines 219-230
LoadQuerySingle ==
    /\ pc = "load"
    /\ ~Truthy(args.query_csv)
    /\ queries' = <<[name |-> "Query", query |-> Val(args.query_molecule),
                     is_smiles |-> is_smiles(Val(args.query_molecule))]>>
    /\ pc' = "scan"
    /\ UNCHANGED <<args, csv_rows, db_exists, db_files, exit_status, model_list, query_idx,
                   pool, result, all_results, out_dir_made, out_file, collected, finished, failed>>
    /\ UNCHANGED <<summary, attrVars, batchVars>>

\* faulty variant of ScanDatabase: the check for an empty model list is missing
ScanDatabaseNoEmptyCheck ==
    /\ pc = "scan"
    /\ IF ~db_exists THEN Exit(ExitFailure) /\ UNCHANGED <<model_list, query_idx>>
       ELSE /\ model_list' = db_files
            /\ pc' = "dispatch" /\ query_idx' = 1 /\ UNCHANGED exit_status
    /\ UNCHANGED <<args, csv_rows, db_exists, db_files, queries,
                   pool, result, all_results, out_dir_made, out_file, collected,
                   finished, failed>>
    /\ UNCHANGED <<summary, attrVars, batchVars>>

\* lines 232-244 and the entry of the loop of line 264
ScanDatabase ==
    /\ pc = "scan"
    /\ IF ~db_exists THEN Exit(ExitFailure) /\ UNCHANGED <<model_list, query_idx>>
       ELSE /\ model_list' = db_files
            /\ IF Len(model_list') = 0 THEN Exit(ExitFailure) /\ UNCHANGED query_idx
               ELSE pc' = "dispatch" /\ query_idx' = 1 /\ UNCHANGED exit_status
    /\ UNCHANGED <<args, csv_rows, db_exists, db_files, queries,
                   pool, result, all_results, out_dir_made, out_file, collected, finished, failed>>
    /\ UNCHANGED <<summary, attrVars, batchVars>>

Pending == [st |-> "pending", res |-> <<>>]
Running == [st |-> "running", res |-> <<>>]
Done(r) == [st |-> "done", res |-> r]

\* lines 275-284: multiprocessing.Pool(args.cpus) raises ValueError for cpus < 1;
\* pool.map queues one task per entry of model_list
OpenPool ==
    /\ pc = "dispatch"
    /\ IF args.cpus < 1 THEN Exit(ExitFailure) /\ UNCHANGED <<pool, finished>>
       ELSE /\ pool' = [i \in 1..Len(model_list) |-> Pending]
            /\ finished' = <<>>
            /\ pc' = "map"
            /\ UNCHANGED exit_status
    /\ UNCHANGED <<args, csv_rows, db_exists, db_files, queries, model_list, query_idx,
                   result, all_results, out_dir_made, out_file, collected, failed>>
    /\ UNCHANGED <<summary, attrVars, batchVars>>

NumRunning == Cardinality({i \in DOMAIN pool : pool[i].st = "running"})

\* an idle worker process takes a queued task
StartTask(i) ==
    /\ pc = "map"
    /\ pool[i].st = "pending"
    /\ NumRunning < args.cpus
    /\ pool' = [pool EXCEPT ![i] = Running]
    /\ UNCHANGED <<args, csv_rows, db_exists, db_files, pc, exit_status, queries,
                   model_list, query_idx, result, all_results, out_dir_made, out_file,
                   collected, finished, failed>>
    /\ UNCHANGED <<summary, attrVars, batchVars>>

\* score_model(model_list[i], ...) returns in its worker (lines 132-154)
FinishTask(i, outcome) ==
    /\ pc = "map"
    /\ pool[i].st = "running"
    /\ pool' = [pool EXCEPT ![i] = Done(score_model(model_list[i], outcome))]
    /\ failed' = IF IsNone(outcome) THEN failed \cup {<<query_idx, i>>} ELSE failed
    /\ UNCHANGED <<args, csv_rows, db_exists, db_files, pc, exit_status, queries,
                   model_list, query_idx, result, all_results, out_dir_made, out_file,
                   collected>>
    /\ finished' = Append(finished, i)
    /\ UNCHANGED <<summary, attrVars, batchVars>>

\* faulty variant of JoinPool: results are taken as soon as one task is done
\* (as with a lazy iterator over the pool), the unfinished ones are missing
JoinPoolPartial ==
    /\ pc = "map"
    /\ \E i \in DOMAIN pool : pool[i].st = "done"
    /\ result' = LET done == SelectSeq(pool, LAMBDA t : t.st = "done")
                 IN [i \in 1..Len(done) |-> done[i].res]
    /\ collected' = Append(collected, result')
    /\ pool' = <<>>
    /\ pc' = "rank"
    /\ UNCHANGED <<args, csv_rows, db_exists, db_files, exit_status, queries,
                   model_list, query_idx, all_results, out_dir_made, out_file, finished, failed>>
    /\ UNCHANGED <<summary, attrVars, batchVars>>

\* faulty variant of JoinPool: the next query's pool is opened before the
\* results of this one are ranked and appended
JoinPoolDeferRank ==
    /\ pc = "map"
    /\ \A i \in DOMAIN pool : pool[i].st = "done"
    /\ result' = [i \in 1..Len(model_list) |-> pool[i].res]
    /\ collected' = Append(collected, result')
    /\ pool' = <<>>
    /\ IF query_idx < Len(queries)
       THEN query_idx' = query_idx + 1 /\ pc' = "dispatch"
       ELSE pc' = "rank" /\ UNCHANGED query_idx
    /\ UNCHANGED <<args, csv_rows, db_exists, db_files, exit_status, queries,
                   model_list, all_results, out_dir_made, out_file, finished, failed>>
    /\ UNCHANGED <<summary, attrVars, batchVars>>

\* pool.map returns the results in the order of model_list once every task is
\* done (line 284); leaving the with block tears the pool down
JoinPool ==
    /\ pc = "map"
    /\ \A i \in DOMAIN pool : pool[i].st = "done"
    /\ result' = [i \in 1..Len(model_list) |-> pool[i].res]
    /\ collected' = Append(collected, result')
    /\ pool' = <<>>
    /\ pc' = "rank"
    /\ UNCHANGED <<args, csv_rows, db_exists, db_files, exit_status, queries,
                   model_list, query_idx, all_results, out_dir_made, out_file, finished, failed>>
    /\ UNCHANGED <<summary, attrVars, batchVars>>

\* faulty variant of RankQuery: the rows are put in front of the table
RankQueryPrepend ==
    /\ pc = "rank"
    /\ result' = Rank(result, args.min_score, args.top_n)
    /\ all_results' = Rows(queries[query_idx].name, result') \o all_results
    /\ IF query_idx < Len(queries)
       THEN query_idx' = query_idx + 1 /\ pc' = "dispatch"
       ELSE pc' = "save" /\ UNCHANGED query_idx
    /\ UNCHANGED <<args, csv_rows, db_exists, db_files, exit_status, queries,
                   model_list, pool, out_dir_made, out_file, collected, finished, failed>>
    /\ UNCHANGED <<summary, attrVars, batchVars>>

\* lines 286-308, and the step of the loop of line 264
RankQuery ==
    /\ pc = "rank"
    /\ result' = Rank(result, args.min_score, args.top_n)
    /\ all_results' = all_results \o Rows(queries[query_idx].name, result')
    /\ IF query_idx < Len(queries)
       THEN query_idx' = query_idx + 1 /\ pc' = "dispatch"
       ELSE pc' = "save" /\ UNCHANGED query_idx
    /\ UNCHANGED <<args, csv_rows, db_exists, db_files, exit_status, queries,
                   model_list, pool, out_dir_made, out_file, collected, finished, failed>>
    /\ UNCHANGED <<summary, attrVars, batchVars>>

\* sum(scores), max(scores), min(scores) of lines 330-335
RECURSIVE SumScores(_)
SumScores(rows) == IF rows = <<>> THEN 0 ELSE Head(rows)[3] + SumScores(Tail(rows))

MaxScoreOf(rows) == CHOOSE m \in {rows[i][3] : i \in 1..Len(rows)} :
                       \A i \in 1..Len(rows) : rows[i][3] <= m

MinScoreOf(rows) == CHOOSE m \in {rows[i][3] : i \in 1..Len(rows)} :
                       \A i \in 1..Len(rows) : rows[i][3] >= m

ScoreStatLabels == {"Total matches", "Max score", "Min score", "Average score"}

\* lines 328-335: what the summary prints, by label; nothing for an empty
\* table.  The average is the quotient of its two components.
ScoreStatistics(rows) ==
    IF rows = <<>> THEN <<>>
    ELSE [l \in ScoreStatLabels |->
            CASE l = "Total matches" -> <<Len(rows)>>
              [] l = "Max score" -> <<MaxScoreOf(rows)>>
              [] l = "Min score" -> <<MinScoreOf(rows)>>
              [] l = "Average score" -> <<SumScores(rows), Len(rows)>>]

\* lines 310-335
SaveResults ==
    /\ pc = "save"
    /\ out_dir_made' = TRUE
    /\ out_file' = Some(all_results)
    /\ summary' = ScoreStatistics(all_results)
    /\ pc' = "exited"
    /\ exit_status' = Some(ExitSuccess)
    /\ UNCHANGED <<args, csv_rows, db_exists, db_files, queries, model_list, query_idx,
                   pool, result, all_results, collected, finished, failed>>
    /\ UNCHANGED <<attrVars, batchVars>>

StartSomeTask == \E i \in 1..Len(model_list) : StartTask(i)

FinishSomeTask == \E i \in 1..Len(model_list), outcome \in Outcomes : FinishTask(i, outcome)

Next ==
    \/ ValidateArgs
    \/ LoadQueriesCsv
    \/ LoadQuerySingle
    \/ ScanDatabase
    \/ OpenPool
    \/ StartSomeTask
    \/ FinishSomeTask
    \/ JoinPool
    \/ RankQuery
    \/ SaveResults

Spec == Init /\ [][Next]_vars

SpecLoad == InitLoad /\ [][Next]_vars

-----------------------------------------------------------------------------
(* typing.py: PMNetAttr and HotspotInfo serialization *)

\* the reverse screening program is not running
ScreenIdle ==
    /\ args = <<>>
    /\ csv_rows = <<>>
    /\ db_exists = FALSE
    /\ db_files = <<>>
    /\ pc = "idle"
    /\ exit_status = None
    /\ queries = <<>>
    /\ model_list = <<>>
    /\ query_idx = 0
    /\ pool = <<>>
    /\ result = <<>>
    /\ all_results = <<>>
    /\ out_dir_made = FALSE
    /\ out_file = None
    /\ collected = <<>>
    /\ finished = <<>>
    /\ failed = {}
    /\ summary = <<>>

\* a torch.Tensor: its content and the device that holds it
Tensors == [data : {0, 1}, device : {"cpu", "cuda"}]

\* Tensor.cpu(): the same content, on the cpu
Cpu(t) == [t EXCEPT !.device = "cpu"]

\* class MultiScaleFeature: five tensors
MultiScaleFeatures == [1..NumScales -> Tensors]

\* class HotspotInfo; density_map is a tensor or None
HotspotInfos ==
    [type : {"Hydrophobic"}, features : Tensors, position : {<<0, 0, 0>>},
     score : {1}, nci_type : {"Hydrophobic"}, density_type : {"sphere"},
     density_map : {None} \cup {Some(t) : t \in Tensors}]

\* class PMNetAttr
PMNetAttrs == [multi_scale_features : MultiScaleFeatures,
               hotspots : SeqsUpTo(HotspotInfos, MaxHotspots)]

\* HotspotInfo.to_state: a dict of the dataclass fields, tensors moved to the cpu
HotspotToState(info) ==
    [type |-> info.type, features |-> Cpu(info.features), position |-> info.position,
     score |-> info.score, nci_type |-> info.nci_type,
     density_type |-> info.density_type,
     density_map |-> IF IsNone(info.density_map) THEN None
                     ELSE Some(Cpu(Val(info.density_map)))]

\* HotspotInfo.from_state: cls(**state)
HotspotFromState(state) ==
    [type |-> state.type, features |-> state.features, position |-> state.position,
     score |-> state.score, nci_type |-> state.nci_type,
     density_type |-> state.density_type, density_map |-> state.density_map]

\* PMNetAttr.to_state: the dict with the keys multi_scale_features and hotspots
PMNetAttrToState(x) ==
    [multi_scale_features |-> [i \in 1..NumScales |-> Cpu(x.multi_scale_features[i])],
     hotspots |-> [i \in 1..Len(x.hotspots) |-> HotspotToState(x.hotspots[i])]]

\* PMNetAttr.from_state: reads state["multi_scale_features"] and
\* state["hotspot_infos"]; a key the dict does not hold raises KeyError
PMNetAttrFromState(state) ==
    IF "multi_scale_features" \notin DOMAIN state THEN [ok |-> FALSE, error |-> "KeyError"]
    ELSE IF "hotspot_infos" \notin DOMAIN state THEN [ok |-> FALSE, error |-> "KeyError"]
    ELSE [ok |-> TRUE,
          value |-> [multi_scale_features |-> state.multi_scale_features,
                     hotspots |-> [i \in 1..Len(state.hotspot_infos) |->
                                     HotspotFromState(state.hotspot_infos[i])]]]

InitAttr ==
    /\ pmnet_attr \in PMNetAttrs
    /\ attr_state = <<>>
    /\ attr_restored = <<>>
    /\ attr_pc = "start"
    /\ ScreenIdle
    /\ BatchIdle

\* state = x.to_state()
AttrToState ==
    /\ attr_pc = "start"
    /\ attr_state' = PMNetAttrToState(pmnet_attr)
    /\ attr_pc' = "saved"
    /\ UNCHANGED <<pmnet_attr, attr_restored, screenVars, batchVars>>

\* PMNetAttr.from_state(state)
AttrFromState ==
    /\ attr_pc = "saved"
    /\ attr_restored' = PMNetAttrFromState(attr_state)
    /\ attr_pc' = "restored"
    /\ UNCHANGED <<pmnet_attr, attr_state, screenVars, batchVars>>

NextAttr ==
    \/ AttrToState
    \/ AttrFromState

SpecAttr == InitAttr /\ [][NextAttr]_vars

-----------------------------------------------------------------------------
(* batch_modeling.py: one modeling.py run per CSV entry *)

\* header of the one-column input CSV ("" is a file without header)
Headers == {"", "Name", "PDB_code", "pdb"}

\* h.lower().strip()
Lower(h) ==
    CASE h = "Name" -> "name"
      [] h = "PDB_code" -> "pdb_code"
      [] OTHER -> h

\* cells of the column ("" is an empty cell)
CellValues == {"", "1abc", "2XYZ"}

\* str.upper()
Upper(v) ==
    CASE v = "1abc" -> "1ABC"
      [] OTHER -> v

BmCsvs == [exists : BOOLEAN, header : Headers,
           rows : SeqsUpTo(CellValues, MaxEntries)]

\* validate_csv_structure: the file has a header with a pdb_code or pdb column
validate_csv_structure(csv) ==
    /\ csv.header # ""
    /\ Lower(csv.header) \in {"pdb_code", "pdb"}

\* parse_csv_input: rows that are empty or lack a PDB code are skipped; the
\* code is upper-cased, row_num counts from 2 (line 1 is the header)
parse_csv_input(csv) ==
    LET cand == [i \in 1..Len(csv.rows) |->
                    [pdb_code |-> Upper(csv.rows[i]), ligand_id |-> None,
                     chain |-> None, row_num |-> i + 1]]
        keep(e) == /\ csv.rows[e.row_num - 1] # ""
                   /\ Lower(csv.header) \in {"pdb_code", "pdb", "pdbcode"}
    IN SelectSeq(cand, keep)

\* description of an entry without ligand id and chain: its PDB code
Description(entry) == entry.pdb_code

\* results of subprocess.run(cmd, check=True)
RunOutcomes == {"ok", "CalledProcessError", "Exception"}

InitBatch ==
    /\ bm_args \in [continue_on_error : BOOLEAN, dry_run : BOOLEAN]
    /\ bm_csv \in BmCsvs
    /\ entries = <<>>
    /\ bm_pc = "start"
    /\ entry_idx = 0
    /\ executed = <<>>
    /\ success_count = 0
    /\ failed_entries = <<>>
    /\ bm_exit = None
    /\ ScreenIdle
    /\ AttrIdle

\* sys.exit(code), or main returning (code 0)
BmExit(code) ==
    /\ bm_pc' = "exited"
    /\ bm_exit' = Some(code)

\* main up to the loop: the CSV checks, parse_csv_input, the counters
BmLoad ==
    /\ bm_pc = "start"
    /\ IF ~bm_csv.exists \/ ~validate_csv_structure(bm_csv)
          \/ parse_csv_input(bm_csv) = <<>>
       THEN /\ BmExit(ExitFailure)
            /\ UNCHANGED <<entries, entry_idx>>
       ELSE /\ entries' = parse_csv_input(bm_csv)
            /\ entry_idx' = 1
            /\ bm_pc' = "loop"
            /\ UNCHANGED bm_exit
    /\ UNCHANGED <<bm_args, bm_csv, executed, success_count, failed_entries,
                   screenVars, attrVars>>

\* faulty variant of BmProcessEntry: a failure never stops the loop
BmProcessEntryNoStop(outcome) ==
    /\ bm_pc = "loop"
    /\ entry_idx <= Len(entries)
    /\ IF bm_args.dry_run
       THEN /\ success_count' = success_count + 1
            /\ UNCHANGED <<executed, failed_entries>>
       ELSE /\ executed' = Append(executed, entries[entry_idx])
            /\ IF outcome = "ok"
               THEN /\ success_count' = success_count + 1
                    /\ UNCHANGED failed_entries
               ELSE /\ failed_entries' =
                          Append(failed_entries, Description(entries[entry_idx]))
                    /\ UNCHANGED success_count
    /\ entry_idx' = entry_idx + 1
    /\ UNCHANGED <<bm_pc, bm_exit>>
    /\ UNCHANGED <<bm_args, bm_csv, entries, screenVars, attrVars>>

\* one iteration of the loop over entries
BmProcessEntry(outcome) ==
    /\ bm_pc = "loop"
    /\ entry_idx <= Len(entries)
    /\ IF bm_args.dry_run
       THEN /\ success_count' = success_count + 1
            /\ entry_idx' = entry_idx + 1
            /\ UNCHANGED <<executed, failed_entries, bm_pc, bm_exit>>
       ELSE /\ executed' = Append(executed, entries[entry_idx])
            /\ IF outcome = "ok"
               THEN /\ success_count' = success_count + 1
                    /\ entry_idx' = entry_idx + 1
                    /\ UNCHANGED <<failed_entries, bm_pc, bm_exit>>
               ELSE /\ failed_entries' =
                          Append(failed_entries, Description(entries[entry_idx]))
                    /\ UNCHANGED success_count
                    /\ IF ~bm_args.continue_on_error
                       THEN /\ BmExit(ExitFailure)
                            /\ UNCHANGED entry_idx
                       ELSE /\ entry_idx' = entry_idx + 1
                            /\ UNCHANGED <<bm_pc, bm_exit>>
    /\ UNCHANGED <<bm_args, bm_csv, entries, screenVars, attrVars>>

\* the summary after the loop
BmSummary ==
    /\ bm_pc = "loop"
    /\ entry_idx > Len(entries)
    /\ IF failed_entries # <<>> THEN BmExit(ExitFailure) ELSE BmExit(ExitSuccess)
    /\ UNCHANGED <<bm_args, bm_csv, entries, entry_idx, executed, success_count,
                   failed_entries, screenVars, attrVars>>

BmProcessSomeEntry == \E outcome \in RunOutcomes : BmProcessEntry(outcome)

NextBatch ==
    \/ BmLoad
    \/ BmProcessSomeEntry
    \/ BmSummary

SpecBatch == InitBatch /\ [][NextBatch]_vars

-----------------------------------------------------------------------------
(* Properties *)

Range(seq) == {seq[i] : i \in 1..Len(seq)}

NonZeroExit == pc = "exited" /\ ~IsNone(exit_status) /\ Val(exit_status) # ExitSuccess

\* what pool.map returned for the query processed last
LastCollected == collected[Len(collected)]

\* result holds a ranked list: some query went through lines 286-294 and the
\* next pool.map has not yet overwritten the variable
Ranked == collected # <<>> /\ pc # "rank"

\* the rows every processed query contributes to the table, by lines 286-298
RECURSIVE TableOf(_)
TableOf(n) ==
    IF n = 0 THEN <<>>
    ELSE TableOf(n - 1)
         \o Rows(queries[n].name, Rank(collected[n], args.min_score, args.top_n))

\* C1: a scoring task that raises yields the sentinel -1.0 paired with its
\* model's path and the run goes on: pool.map still returns one result per
\* model, in model_list order, the sentinel exactly for the failed pairs; the
\* run does not exit with an error once a task has failed; and the table and
\* the written file hold every query's ranked results, the real score of each
\* pair that did not fail included whenever it passes the filter (top_n unset).
FaultIsolation ==
    /\ \A i \in DOMAIN pool :
          pool[i].st = "done" =>
             /\ pool[i].res[1] = model_list[i]
             /\ (<<query_idx, i>> \in failed <=> pool[i].res[2] = Sentinel)
    /\ \A q \in 1..Len(collected) :
          /\ Len(collected[q]) = Len(model_list)
          /\ \A i \in 1..Len(model_list) :
                /\ collected[q][i][1] = model_list[i]
                /\ (<<q, i>> \in failed => collected[q][i][2] = Sentinel)
                /\ (<<q, i>> \notin failed => collected[q][i][2] \in RealScores)
    /\ (failed # {} => ~NonZeroExit)
    /\ (pc \in {"dispatch", "save"} => all_results = TableOf(Len(collected)))
    /\ (~IsNone(out_file) =>
          /\ Len(collected) = Len(queries)
          /\ Val(out_file) = TableOf(Len(queries))
          /\ IsNone(args.top_n) =>
                \A q \in 1..Len(queries), i \in 1..Len(model_list) :
                   (<<q, i>> \notin failed /\ collected[q][i][2] >= args.min_score)
                      => <<queries[q].name, model_list[i], collected[q][i][2]>>
                            \in Range(Val(out_file)))

\* C1 witness: the run finished and wrote its file although a task of the
\* first query failed, and a later pair's real score is in the file
FaultIsolationWitness ==
    /\ ~IsNone(out_file)
    /\ Len(queries) = 2
    /\ Len(model_list) = 2
    /\ <<1, 1>> \in failed
    /\ <<2, 2>> \notin failed
    /\ <<queries[2].name, model_list[2], collected[2][2][2]>> \in Range(Val(out_file))

\* C2: no row of the result table carries the score of a failed scoring task
SentinelNeverInOutput ==
    \A k \in 1..Len(all_results) :
       ~(\E f \in failed :
            /\ queries[f[1]].name = all_results[k][1]
            /\ model_list[f[2]] = all_results[k][2]
            /\ all_results[k][3] = Sentinel)

\* C3: a query's ranked sequence is sorted by score, descending
RankedDescending ==
    Ranked => \A j \in 1..(Len(result) - 1) : result[j][2] >= result[j + 1][2]

\* C3 witness: the pool returned a lower score before a higher one and both
\* are in the ranked sequence
RankedDescendingWitness ==
    /\ Ranked
    /\ Len(result) >= 2
    /\ Len(LastCollected) >= 2
    /\ LastCollected[1][2] < LastCollected[2][2]
    /\ LastCollected[1] \in Range(result)
    /\ LastCollected[2] \in Range(result)

\* position of a model path in model_list
ModelIndex(path) == CHOOSE i \in 1..Len(model_list) : model_list[i] = path

\* C4: retained results of equal score keep the order of model_list, whatever
\* the pool size and the order in which the tasks completed
TieStable ==
    Ranked =>
       \A j \in 1..Len(result), k \in 1..Len(result) :
          (j < k /\ result[j][2] = result[k][2])
             => ModelIndex(result[j][1]) < ModelIndex(result[k][1])

\* C4 witness: two retained results tie, and their tasks ran concurrently and
\* completed in the reverse of the model_list order
TieStableWitness ==
    /\ Ranked
    /\ args.cpus > 1
    /\ Len(finished) >= 2
    /\ finished[1] > finished[2]
    /\ \E j \in 1..Len(result), k \in 1..Len(result) :
          j < k /\ result[j][2] = result[k][2]

\* C5: with top_n unset the ranked sequence holds exactly the results with
\* score >= min_score; nothing is dropped when min_score is at most every
\* score; and for min_score > 0 it is a subset of the ranking for min_score 0
MinScoreFilter ==
    (Ranked /\ IsNone(args.top_n)) =>
       /\ Range(result) = {r \in Range(LastCollected) : r[2] >= args.min_score}
       /\ Len(result) = Cardinality(Range(result))
       /\ ((\A r \in Range(LastCollected) : args.min_score <= r[2])
              => Range(result) = Range(LastCollected))
       /\ (args.min_score > 0 =>
              Range(result) \subseteq Range(Rank(LastCollected, 0, None)))

\* C5 witness: a positive threshold dropped a result below it and kept one
\* whose score equals it
MinScoreFilterWitness ==
    /\ Ranked
    /\ IsNone(args.top_n)
    /\ args.min_score > 0
    /\ \E r \in Range(LastCollected) : r[2] < args.min_score /\ r[2] >= 0
    /\ \E r \in Range(result) : r[2] = args.min_score

\* C6: for every top_n = k the program accepts, the ranked sequence has
\* min(k, number of results that passed the filter) entries, the first k of
\* the sorted filtered sequence
TopNTruncation ==
    (Ranked /\ ~IsNone(args.top_n)) =>
       LET sorted == SortByScoreReverse(FilterMinScore(LastCollected, args.min_score))
           k == Val(args.top_n)
       IN /\ Len(result) = Min(k, Len(sorted))
          /\ \A j \in 1..Len(result) : result[j] = sorted[j]

\* an option given on the command line (argparse leaves the others None)
Supplied(o) == ~IsNone(o)

\* C7: when both query sources are supplied, or neither is, the run exits
\* non-zero before any query is loaded or scored and writes nothing
QuerySourcesExclusive ==
    (pc # "validate" /\ (Supplied(args.query_molecule) <=> Supplied(args.query_csv))) =>
       /\ NonZeroExit
       /\ queries = <<>>
       /\ collected = <<>>
       /\ pool = <<>>
       /\ IsNone(out_file)
       /\ ~out_dir_made

\* C8: a database directory that is missing or holds no .pm file makes the
\* run exit non-zero before any scoring task starts; neither the output file
\* nor its parent directory is created
EmptyDatabaseFatal ==
    (~db_exists \/ db_files = <<>>) =>
       /\ pc \notin {"dispatch", "map", "rank", "save"}
       /\ (pc = "exited" => NonZeroExit)
       /\ pool = <<>>
       /\ collected = <<>>
       /\ failed = {}
       /\ IsNone(out_file)
       /\ ~out_dir_made

\* C8 witness: a query was loaded, the directory exists without any model,
\* and the run has exited with status 1
EmptyDatabaseFatalWitness ==
    /\ db_exists
    /\ db_files = <<>>
    /\ queries # <<>>
    /\ exit_status = Some(ExitFailure)

\* the batch file was opened and read (lines 177-198)
CsvLoaded ==
    /\ pc \notin {"validate", "load"}
    /\ Truthy(args.query_csv)
    /\ ~Truthy(args.query_molecule)
    /\ PathExists(Val(args.query_csv))

\* the rows C9 says are skipped
SkippedAsStated(row) ==
    \/ row.name = ""
    \/ (row.smiles = "" /\ row.file = "")
    \/ (row.file # "" /\ ~PathExists(row.file))

KeptAsStated(row) == ~SkippedAsStated(row)

\* C9 as stated: a row is skipped when it misses a name, misses both SMILES
\* and File, or names a File that does not exist; every other row yields one
\* query, in row order; the run is fatal when no row is valid
RowFaultToleranceAsStated ==
    CsvLoaded =>
       LET kept == SelectSeq(csv_rows, KeptAsStated)
       IN /\ Len(queries) = Len(kept)
          /\ \A j \in 1..Len(queries) : queries[j].name = kept[j].name
          /\ (kept = <<>> => NonZeroExit /\ collected = <<>> /\ IsNone(out_file))

\* the rows the amended C9 says are skipped
SkippedRow(row) ==
    \/ row.name = ""
    \/ (row.smiles = "" /\ row.file = "")
    \/ (row.smiles = "" /\ row.file # "" /\ ~PathExists(row.file))

ValidRow(row) == ~SkippedRow(row)

\* C9 as amended: a row is skipped when it misses a name, misses both SMILES
\* and File, or has no SMILES and names a File that does not exist; every
\* other row yields exactly one query (its SMILES if it has one, else its
\* File), in row order; with no valid row the run exits non-zero without
\* scoring or output, and with one (and a database that holds a model) the
\* run completes and writes its output
RowFaultTolerance ==
    CsvLoaded =>
       LET kept == SelectSeq(csv_rows, ValidRow)
       IN /\ Len(queries) = Len(kept)
          /\ \A j \in 1..Len(queries) :
                /\ queries[j].name = kept[j].name
                /\ queries[j].query =
                      (IF kept[j].smiles # "" THEN kept[j].smiles ELSE kept[j].file)
          /\ (kept = <<>> =>
                 /\ NonZeroExit
                 /\ pool = <<>> /\ collected = <<>>
                 /\ IsNone(out_file) /\ ~out_dir_made)
          /\ ((kept # <<>> /\ db_exists /\ db_files # <<>> /\ pc = "exited")
                 => (exit_status = Some(ExitSuccess) /\ ~IsNone(out_file)))

\* C9 witness: of two rows the first was skipped for its missing file, the
\* second gave the only query, and the run went on to write its output
RowFaultToleranceWitness ==
    /\ CsvLoaded
    /\ Len(csv_rows) = 2
    /\ csv_rows[1].name # "" /\ csv_rows[1].smiles = "" /\ csv_rows[1].file = "gone.sdf"
    /\ Len(queries) = 1
    /\ queries[1].query = csv_rows[2].smiles
    /\ ~IsNone(out_file)

\* C10 as stated: every query record is a structure file (is_smiles false)
\* if and only if its payload names an existing path
ClassifiedByExistence ==
    \A j \in 1..Len(queries) : (~queries[j].is_smiles) <=> PathExists(queries[j].query)

\* C10 as amended: a query is a structure file only if its payload names an
\* existing path; in single-query mode also conversely; in batch mode a query
\* is a structure file exactly when it was taken from the File column (the
\* row has no SMILES), so a SMILES cell is treated as SMILES even when it
\* names an existing path
QueryClassification ==
    /\ \A j \in 1..Len(queries) : (~queries[j].is_smiles) => PathExists(queries[j].query)
    /\ (~Truthy(args.query_csv) => ClassifiedByExistence)
    /\ (CsvLoaded =>
          LET kept == SelectSeq(csv_rows, ValidRow)
          IN \A j \in 1..Len(queries) :
                j <= Len(kept) => (queries[j].is_smiles <=> kept[j].smiles # ""))

\* C10 witness: a batch with a structure-file query and a SMILES query whose
\* text names an existing path
QueryClassificationWitness ==
    /\ CsvLoaded
    /\ \E j \in 1..Len(queries), k \in 1..Len(queries) :
          /\ ~queries[j].is_smiles
          /\ queries[k].is_smiles /\ PathExists(queries[k].query)

\* C10 witness, single-query mode: the payload names an existing file
SingleFileQueryWitness ==
    /\ ~Truthy(args.query_csv)
    /\ Len(queries) = 1
    /\ ~queries[1].is_smiles

\* C11: no two query records of a run carry the same name
UniqueQueryNames ==
    \A j \in 1..Len(queries), k \in 1..Len(queries) :
       j # k => queries[j].name # queries[k].name

\* C12: every pool.map call queues exactly one task per model of model_list,
\* and a query's results reach the filter only when each of those tasks has
\* completed once and left its (path, score) result; nothing partial is
\* collected or ranked
JoinBarrier ==
    /\ (pc = "map" => DOMAIN pool = 1..Len(model_list))
    /\ \A q \in 1..Len(collected) : Len(collected[q]) = Len(model_list)
    /\ (pc = "rank" =>
          /\ Len(finished) = Len(model_list)
          /\ Range(finished) = 1..Len(model_list)
          /\ Len(result) = Len(model_list)
          /\ \A i \in 1..Len(result) : Len(result[i]) = 2 /\ result[i][1] = model_list[i])

\* C12 witness: ranking is about to start after two tasks ran in parallel
\* and completed out of order, one of them with the sentinel
JoinBarrierWitness ==
    /\ pc = "rank"
    /\ args.cpus > 1
    /\ finished = <<2, 1>>
    /\ \E i \in 1..Len(model_list) : <<query_idx, i>> \in failed

\* C13: the tasks in flight all belong to the current query; while they are,
\* every earlier query has been collected, ranked and appended to the table;
\* a pool exists only between its pool.map call and its return
SequentialQueries ==
    /\ (pool # <<>> => pc = "map")
    /\ (pc \in {"dispatch", "map"} =>
          /\ Len(collected) = query_idx - 1
          /\ all_results = TableOf(query_idx - 1))
    /\ (pc = "rank" => Len(collected) = query_idx /\ all_results = TableOf(query_idx - 1))
    /\ \A f \in failed : f[1] <= query_idx
    /\ \A f \in failed : (f[1] = query_idx /\ pc = "map") => pool[f[2]].st = "done"

\* C13 witness: a task of the second query is running and the rows of the
\* first query are in the table
SequentialQueriesWitness ==
    /\ pc = "map"
    /\ query_idx = 2
    /\ \E i \in DOMAIN pool : pool[i].st = "running"
    /\ all_results # <<>>
    /\ \A k \in 1..Len(all_results) : all_results[k][1] = queries[1].name

\* position of a query name in queries
QueryPos(name) == CHOOSE q \in 1..Len(queries) : queries[q].name = name

\* the rows of a table that carry a query name, in table order
RowsOf(table, name) == SelectSeq(table, LAMBDA r : r[1] = name)

\* C14: the written table is the accumulated one; the rows of a query
\* processed earlier all precede those of a query processed later, and the
\* rows of one query are contiguous and in the order its ranking produced
TableOrder ==
    ~IsNone(out_file) =>
       LET table == Val(out_file)
       IN /\ table = all_results
          /\ table = TableOf(Len(queries))
          /\ UniqueQueryNames =>
                /\ \A j \in 1..Len(table), k \in 1..Len(table) :
                      j < k => QueryPos(table[j][1]) <= QueryPos(table[k][1])
                /\ \A q \in 1..Len(queries) :
                      RowsOf(table, queries[q].name) =
                         Rows(queries[q].name,
                              Rank(collected[q], args.min_score, args.top_n))

\* C14 witness: the file holds rows of two queries, two of them of the second
TableOrderWitness ==
    /\ ~IsNone(out_file)
    /\ Len(queries) = 2
    /\ Len(RowsOf(Val(out_file), queries[1].name)) >= 1
    /\ Len(RowsOf(Val(out_file), queries[2].name)) >= 2
    /\ Val(out_file)[Len(Val(out_file))][3] < Val(out_file)[Len(Val(out_file)) - 1][3]

\* rows of the batch file that gave no query, and scoring tasks that failed
SkippedRowCount == Len(csv_rows) - Len(queries)

FailedTaskCount == Cardinality(failed)

\* C15: a run in which r batch rows were skipped and f scoring tasks failed
\* completes, and its summary reports r skipped rows and f failed tasks
SummaryReportsDropped ==
    (CsvLoaded /\ pc = "exited" /\ exit_status = Some(ExitSuccess)) =>
       /\ (SkippedRowCount > 0 =>
              \E l \in DOMAIN summary \ ScoreStatLabels : summary[l] = <<SkippedRowCount>>)
       /\ (FailedTaskCount > 0 =>
              \E l \in DOMAIN summary \ ScoreStatLabels : summary[l] = <<FailedTaskCount>>)

\* the content of a tensor, whatever device holds it
SameTensor(a, b) == a.data = b.data

SameHotspot(a, b) ==
    /\ a.type = b.type /\ a.position = b.position /\ a.score = b.score
    /\ a.nci_type = b.nci_type /\ a.density_type = b.density_type
    /\ SameTensor(a.features, b.features)
    /\ IsNone(a.density_map) = IsNone(b.density_map)
    /\ (~IsNone(a.density_map) => SameTensor(Val(a.density_map), Val(b.density_map)))

\* C16: PMNetAttr.from_state(x.to_state()) completes without error and gives
\* a PMNetAttr with the multi-scale features and the hotspots of x
AttrRoundTrip ==
    attr_pc = "restored" =>
       /\ attr_restored.ok
       /\ \A i \in 1..NumScales :
             SameTensor(attr_restored.value.multi_scale_features[i],
                        pmnet_attr.multi_scale_features[i])
       /\ Len(attr_restored.value.hotspots) = Len(pmnet_attr.hotspots)
       /\ \A i \in 1..Len(pmnet_attr.hotspots) :
             SameHotspot(attr_restored.value.hotspots[i], pmnet_attr.hotspots[i])

\* batch_modeling.py ended with a status other than 0
BmNonZeroExit == bm_pc = "exited" /\ ~IsNone(bm_exit) /\ Val(bm_exit) # ExitSuccess

\* the batch loop was entered and the process has ended
BatchEnded == entries # <<>> /\ bm_pc = "exited"

\* without --continue_on_error a failed command is the last one executed and
\* ends the process with a non-zero status
StopOnFirstFailure ==
    (entries # <<>> /\ ~bm_args.continue_on_error /\ failed_entries # <<>>) =>
       /\ BmNonZeroExit
       /\ Len(failed_entries) = 1
       /\ executed = SubSeq(entries, 1, Len(executed))
       /\ failed_entries[1] = Description(executed[Len(executed)])

\* the exit status and the counts at the end of a --continue_on_error run
ContinueCounts ==
    /\ (BmNonZeroExit <=> failed_entries # <<>>)
    /\ success_count + Len(failed_entries) = Len(entries)

StopOrContinueAsStated ==
    /\ StopOnFirstFailure
    /\ (BatchEnded /\ bm_args.continue_on_error) =>
          (executed = entries /\ ContinueCounts)

\* C17: without --continue_on_error, after an entry's command fails no later
\* command is executed and the exit status is non-zero; with it, and --dry_run
\* not set, the command of every entry is executed in CSV row order, the exit
\* status is non-zero iff an entry failed, and successes plus failures equal
\* the number of entries; with --dry_run no command is executed, every entry
\* counts as a success and the exit status is zero
StopOrContinue ==
    /\ StopOnFirstFailure
    /\ (BatchEnded /\ bm_args.continue_on_error) =>
          /\ ContinueCounts
          /\ executed = (IF bm_args.dry_run THEN <<>> ELSE entries)
          /\ (bm_args.dry_run => success_count = Len(entries) /\ bm_exit = Some(ExitSuccess))

StopOrContinueWitness ==
    /\ BatchEnded
    /\ bm_args.continue_on_error
    /\ ~bm_args.dry_run
    /\ Len(entries) = 2
    /\ entries[1].pdb_code # entries[2].pdb_code
    /\ failed_entries = <<Description(entries[1])>>
    /\ success_count = 1
    /\ executed = entries

====
